---- MODULE Spec2Model ----
(***************************************************************************)
(* A model of merge_backups/backend.py: merge_backup reconciles a source   *)
(* tree (folder_to_backup) into a destination tree (backup_location).      *)
(*                                                                         *)
(* A file is a record [c |-> content, m |-> mtime]; two files are          *)
(* byte-identical (filecmp.cmp, shallow=False) iff their c fields agree.   *)
(* mtimes are counted in ticks, TicksPerSec ticks to the second, so that   *)
(* the "%Y%m%d_%H%M%S" formatting really loses the sub-second part.        *)
(* A relative path is a record [dir |-> <<components>>, name |-> <<stem,   *)
(* t1, ..., tn>>]: the name is a stem followed by the timestamps that were *)
(* appended to it ("a_T1_T2.txt"); the extension is carried along          *)
(* unchanged by the code and is left out.                                  *)
(*                                                                         *)
(* Not modelled: the verbose flag (it changes log levels only), a path     *)
(* that is a file in one tree and a directory in the other, a source file  *)
(* named backup_merger.log, and the cache of filecmp.                      *)
(***************************************************************************)
EXTENDS Integers, Sequences, FiniteSets, TLC

\* ---------------------------------------------------------------- bounds
NumContents == 2     \* distinct file contents
MaxMtime == 3        \* mtimes are 0..MaxMtime ticks
TicksPerSec == 2     \* sub-second resolution of st_mtime
MaxRuns == 2         \* calls of merge_backup in one behaviour

Contents == 1..NumContents
Mtimes == 0..MaxMtime

OLDVERSION == ".oldversion"
Root == <<>>

File(c, m) == [c |-> c, m |-> m]
RelPath(d, n) == [dir |-> d, name |-> n]

\* The files a tree can hold initially: "a" at the root and one archived
\* version of it, "a_0", in the root's .oldversion directory.
PathA == RelPath(Root, <<"a">>)
PathArch == RelPath(<<OLDVERSION>>, <<"a", 0>>)

NoFiles == [p \in {} |-> File(1, 0)]

\* ------------------------------------------------------- pure functions
\* datetime.fromtimestamp(mtime).strftime("%Y%m%d_%H%M%S")
strftime(mtime) == mtime \div TicksPerSec

\* os.path.join(os.path.dirname(dest_file_path), ".oldversion")
old_versions_dir(p) == Append(p.dir, OLDVERSION)

\* f"{stem}_{old_version_datetime}{ext}" joined to old_versions_dir
old_version_path(p, mtime) ==
    RelPath(old_versions_dir(p), Append(p.name, strftime(mtime)))

\* build_file_tree: relative path -> st_mtime of every regular file
build_file_tree(files) == [p \in DOMAIN files |-> files[p].m]

\* filecmp.cmp(f1, f2, shallow=False)
filecmp(f1, f2) == f1.c = f2.c

\* os.listdir(old_versions_dir), regular files only (filecmp.cmp returns
\* False for a subdirectory)
listdir(files, d) == {e \in DOMAIN files : e.dir = d}

is_unique_version(file, d, files) ==
    \A e \in listdir(files, d) : ~filecmp(file, files[e])

\* the directories Path(d).mkdir(parents=True) makes sure exist
Prefixes(d) == {SubSeq(d, 1, n) : n \in 0..Len(d)}

\* shutil.move(from, to): os.rename replaces an existing target silently
Put(files, p, f) == [q \in DOMAIN files \cup {p} |-> IF q = p THEN f ELSE files[q]]
Del(files, p) == [q \in DOMAIN files \ {p} |-> files[q]]

\* The orders in which the dict built by build_file_tree can be iterated:
\* os.scandir lists a directory in any order, and the entries of a
\* subdirectory are inserted together where the subdirectory is listed.
IsPrefix(d, e) == Len(d) <= Len(e) /\ SubSeq(e, 1, Len(d)) = d
Contiguous(s) ==
    \A i, j, k \in DOMAIN s :
        (i < j /\ j < k) =>
            \A d \in Prefixes(s[i].dir) :
                (IsPrefix(d, s[k].dir) => IsPrefix(d, s[j].dir))
ScanOrders(S) ==
    {s \in [1..Cardinality(S) -> S] :
        (\A i, j \in DOMAIN s : i # j => s[i] # s[j]) /\ Contiguous(s)}

ZeroCounts == [newer |-> 0, different |-> 0, deleted |-> 0, moved |-> 0]
NoDecision == [p \in {} |-> "none"]
NoRun == [dry |-> FALSE, pc |-> "none", error |-> "none", decision |-> NoDecision,
          count |-> ZeroCounts, src |-> NoFiles, srcRoot |-> FALSE,
          dst |-> NoFiles, dstDirs |-> {}]

\* ---------------------------------------------------------------- state
VARIABLES
    src,          \* files of the source tree, by relative path
    srcRoot,      \* the source root directory exists
    dst,          \* files of the destination tree, by relative path
    dstDirs,      \* directories of the destination tree
    logFile,      \* backup_merger.log exists at the destination root
    dry_run,      \* argument of the current call
    pc,           \* "idle", "loop", "done", "failed"
    error,        \* the exception that ended the call, or "none"
    folder_to_backup_tree,
    backup_location_tree,
    todo,         \* the items of folder_to_backup_tree not yet iterated
    decision,     \* the branch taken for each path iterated so far
    count,        \* count_newer, count_different, count_deleted, count_moved
    start,        \* both trees as they were when the call began
    prev,         \* the previous call: arguments, outcome, trees at its start
    runs          \* calls begun so far

vars == <<src, srcRoot, dst, dstDirs, logFile, dry_run, pc, error,
          folder_to_backup_tree, backup_location_tree, todo, decision, count,
          start, prev, runs>>

Snapshot == [src |-> src, srcRoot |-> srcRoot, dst |-> dst, dstDirs |-> dstDirs,
             logFile |-> logFile]

\* The trees a call can find.  An archived version carries the mtime of the
\* file it was made from, so its name's timestamp is that of its mtime.
RootFiles == {NoFiles} \cup {[p \in {PathA} |-> File(c, m)] : c \in Contents, m \in Mtimes}
ArchFiles ==
    {NoFiles} \cup
    {[p \in {PathArch} |-> File(c, m)] : c \in Contents, m \in {t \in Mtimes : strftime(t) = 0}}
Merge(f, g) == [p \in DOMAIN f \cup DOMAIN g |-> IF p \in DOMAIN f THEN f[p] ELSE g[p]]
Trees == {Merge(f, g) : f \in RootFiles, g \in ArchFiles}
DirsOf(files) == UNION {Prefixes(p.dir) : p \in DOMAIN files} \cup {Root}

Init ==
    /\ src \in Trees
    /\ srcRoot = TRUE
    /\ dst \in Trees
    /\ \E extra \in SUBSET {<<OLDVERSION>>} : dstDirs = DirsOf(dst) \cup extra
    /\ logFile = FALSE
    /\ dry_run \in BOOLEAN
    /\ pc = "idle"
    /\ error = "none"
    /\ folder_to_backup_tree = build_file_tree(NoFiles)
    /\ backup_location_tree = build_file_tree(NoFiles)
    /\ todo = <<>>
    /\ decision = NoDecision
    /\ count = ZeroCounts
    /\ start = Snapshot
    /\ prev = NoRun
    /\ runs = 1

\* -------------------------------------------------------------- actions
\* the counters kept from one call to the next
BeginKeepCount ==
    /\ pc = "idle"
    /\ \E has_handlers \in BOOLEAN : logFile' = (logFile \/ ~has_handlers)
    /\ start' = Snapshot
    /\ decision' = NoDecision
    /\ count' = count
    /\ IF srcRoot
         THEN /\ folder_to_backup_tree' = build_file_tree(src)
              /\ backup_location_tree' = build_file_tree(dst)
              /\ todo' \in ScanOrders(DOMAIN src)
              /\ pc' = "loop"
              /\ error' = "none"
         ELSE /\ pc' = "failed"
              /\ error' = "FileNotFoundError"
              /\ UNCHANGED <<folder_to_backup_tree, backup_location_tree, todo>>
    /\ UNCHANGED <<src, srcRoot, dst, dstDirs, dry_run, prev, runs>>

\* merge_backup, lines 93-122: logging.basicConfig opens the log file for
\* writing (filemode "w") unless the root logger of the calling process has
\* a handler already; then both trees are scanned.  os.scandir raises
\* FileNotFoundError on a missing root.
Begin ==
    /\ pc = "idle"
    /\ \E has_handlers \in BOOLEAN : logFile' = (logFile \/ ~has_handlers)
    /\ start' = Snapshot
    /\ decision' = NoDecision
    /\ count' = ZeroCounts
    /\ IF srcRoot
         THEN /\ folder_to_backup_tree' = build_file_tree(src)
              /\ backup_location_tree' = build_file_tree(dst)
              /\ todo' \in ScanOrders(DOMAIN src)
              /\ pc' = "loop"
              /\ error' = "none"
         ELSE /\ pc' = "failed"
              /\ error' = "FileNotFoundError"
              /\ UNCHANGED <<folder_to_backup_tree, backup_location_tree, todo>>
    /\ UNCHANGED <<src, srcRoot, dst, dstDirs, dry_run, prev, runs>>

\* The loop of lines 125-206 takes the next item of folder_to_backup_tree.
InLoop == pc = "loop" /\ todo # <<>>
rel_path == Head(todo)
source_mtime == folder_to_backup_tree[rel_path]
dest_mtime == backup_location_tree[rel_path]
InBackup == rel_path \in DOMAIN backup_location_tree
Differs == InBackup /\ ~filecmp(src[rel_path], dst[rel_path])

Decide(tag) ==
    /\ decision' = [q \in DOMAIN decision \cup {rel_path} |->
                        IF q = rel_path THEN tag ELSE decision[q]]
    /\ todo' = Tail(todo)
Counted(field) == count' = [count EXCEPT ![field] = @ + 1]
LoopFrame ==
    UNCHANGED <<srcRoot, logFile, dry_run, pc, error,
                folder_to_backup_tree, backup_location_tree, start, prev, runs>>

\* the directory made without looking at dry_run
MkOldVersionsDirAlways ==
    dstDirs' = dstDirs \cup {old_versions_dir(rel_path)}

\* Path(old_versions_dir).mkdir(exist_ok=True), lines 148-150
MkOldVersionsDir ==
    dstDirs' = IF dry_run THEN dstDirs ELSE dstDirs \cup {old_versions_dir(rel_path)}

\* lines 138-142: same content, the source file is removed
Identical ==
    /\ InLoop /\ InBackup
    /\ filecmp(src[rel_path], dst[rel_path])
    /\ src' = IF dry_run THEN src ELSE Del(src, rel_path)
    /\ Counted("different")
    /\ Decide("identical")
    /\ UNCHANGED <<dst, dstDirs>>
    /\ LoopFrame

\* lines 154-171: the source is newer and the destination's file is not in
\* the archive yet: it is archived under its own timestamp and replaced
SourceNewer ==
    /\ InLoop /\ Differs
    /\ source_mtime > dest_mtime
    /\ dry_run => old_versions_dir(rel_path) \in dstDirs
    /\ is_unique_version(dst[rel_path], old_versions_dir(rel_path), dst)
    /\ MkOldVersionsDir
    /\ IF dry_run
         THEN UNCHANGED <<src, dst>>
         ELSE /\ dst' = Put(Put(dst, old_version_path(rel_path, dest_mtime), dst[rel_path]),
                            rel_path, src[rel_path])
              /\ src' = Del(src, rel_path)
    /\ Counted("newer")
    /\ Decide("source-newer archived")
    /\ LoopFrame

\* lines 172-179: the source is newer but the destination's file is
\* byte-identical to an archived version: the source file is removed
NotUnique ==
    /\ InLoop /\ Differs
    /\ source_mtime > dest_mtime
    /\ dry_run => old_versions_dir(rel_path) \in dstDirs
    /\ ~is_unique_version(dst[rel_path], old_versions_dir(rel_path), dst)
    /\ MkOldVersionsDir
    /\ src' = IF dry_run THEN src ELSE Del(src, rel_path)
    /\ Counted("deleted")
    /\ Decide("source-newer deduplicated")
    /\ UNCHANGED dst
    /\ LoopFrame

\* line 69 in a dry run: the directory was not made, os.listdir raises
ListdirFails ==
    /\ InLoop /\ Differs
    /\ source_mtime > dest_mtime
    /\ dry_run /\ old_versions_dir(rel_path) \notin dstDirs
    /\ pc' = "failed"
    /\ error' = "FileNotFoundError"
    /\ UNCHANGED <<src, srcRoot, dst, dstDirs, logFile, dry_run,
                   folder_to_backup_tree, backup_location_tree, todo, decision,
                   count, start, prev, runs>>

\* lines 183-195: the destination is newer, the source file is archived
\* under its own timestamp, with no uniqueness check
BackupNewer ==
    /\ InLoop /\ Differs
    /\ source_mtime < dest_mtime
    /\ MkOldVersionsDir
    /\ IF dry_run
         THEN UNCHANGED <<src, dst>>
         ELSE /\ dst' = Put(dst, old_version_path(rel_path, source_mtime), src[rel_path])
              /\ src' = Del(src, rel_path)
    /\ Counted("moved")
    /\ Decide("backup-newer archived")
    /\ LoopFrame

\* lines 143-195 with equal mtimes: the directory is made, no branch fires
Tie ==
    /\ InLoop /\ Differs
    /\ source_mtime = dest_mtime
    /\ MkOldVersionsDir
    /\ Decide("tie")
    /\ UNCHANGED <<src, dst, count>>
    /\ LoopFrame

\* lines 198-206: the path is not in the destination's snapshot
NewFile ==
    /\ InLoop /\ ~InBackup
    /\ IF dry_run
         THEN UNCHANGED <<src, dst, dstDirs>>
         ELSE /\ dstDirs' = dstDirs \cup Prefixes(rel_path.dir)
              /\ dst' = Put(dst, rel_path, src[rel_path])
              /\ src' = Del(src, rel_path)
    /\ Decide("new file moved")
    /\ UNCHANGED count
    /\ LoopFrame

\* the source tree removed in a finally clause, whatever happened
IOErrorCleanup ==
    /\ InLoop
    /\ pc' = "failed"
    /\ error' = "OSError"
    /\ src' = NoFiles
    /\ srcRoot' = FALSE
    /\ UNCHANGED <<dst, dstDirs, logFile, dry_run,
                   folder_to_backup_tree, backup_location_tree, todo, decision,
                   count, start, prev, runs>>

\* a filesystem call made for the next path raises OSError before anything
\* was changed for it; the exception leaves merge_backup at once
IOError ==
    /\ InLoop
    /\ pc' = "failed"
    /\ error' = "OSError"
    /\ UNCHANGED <<src, srcRoot, dst, dstDirs, logFile, dry_run,
                   folder_to_backup_tree, backup_location_tree, todo, decision,
                   count, start, prev, runs>>

\* lines 169-170: the second shutil.move raises after the first has moved
\* the destination's file into the archive
IOErrorBetweenMoves ==
    /\ InLoop /\ Differs
    /\ source_mtime > dest_mtime
    /\ ~dry_run
    /\ is_unique_version(dst[rel_path], old_versions_dir(rel_path), dst)
    /\ MkOldVersionsDir
    /\ dst' = Del(Put(dst, old_version_path(rel_path, dest_mtime), dst[rel_path]), rel_path)
    /\ pc' = "failed"
    /\ error' = "OSError"
    /\ UNCHANGED <<src, srcRoot, logFile, dry_run,
                   folder_to_backup_tree, backup_location_tree, todo, decision,
                   count, start, prev, runs>>

\* lines 208-222: the loop is over; shutil.rmtree(folder_to_backup)
Finish ==
    /\ pc = "loop" /\ todo = <<>>
    /\ pc' = "done"
    /\ IF dry_run
         THEN UNCHANGED <<src, srcRoot>>
         ELSE src' = NoFiles /\ srcRoot' = FALSE
    /\ UNCHANGED <<dst, dstDirs, logFile, dry_run, error,
                   folder_to_backup_tree, backup_location_tree, todo, decision,
                   count, start, prev, runs>>

\* merge_backup is called again on the same two paths once a call has ended
\* (not after an I/O error); a source root that was deleted may have been
\* made again, empty
Rerun ==
    /\ pc \in {"done", "failed"} /\ error # "OSError"
    /\ runs < MaxRuns
    /\ runs' = runs + 1
    /\ prev' = [dry |-> dry_run, pc |-> pc, error |-> error, decision |-> decision,
                count |-> count, src |-> start.src, srcRoot |-> start.srcRoot,
                dst |-> start.dst, dstDirs |-> start.dstDirs]
    /\ srcRoot' \in (IF srcRoot THEN {TRUE} ELSE BOOLEAN)
    /\ dry_run' \in BOOLEAN
    /\ pc' = "idle"
    /\ error' = "none"
    /\ start' = [Snapshot EXCEPT !.srcRoot = srcRoot']
    /\ UNCHANGED <<src, dst, dstDirs, logFile, folder_to_backup_tree,
                   backup_location_tree, todo, decision, count>>

Step ==
    \/ Identical \/ SourceNewer \/ NotUnique \/ ListdirFails
    \/ BackupNewer \/ Tie \/ NewFile

Next == Begin \/ Step \/ IOError \/ IOErrorBetweenMoves \/ Finish \/ Rerun

Spec == Init /\ [][Next]_vars

\* ---------------------------------------------------------------- claims
LiveDone == pc = "done" /\ ~dry_run
InBoth == DOMAIN start.src \cap DOMAIN start.dst
Conflict(p) == ~filecmp(start.src[p], start.dst[p])
ContentsOf(files) == {files[p].c : p \in DOMAIN files}
AfterMerge == runs > 1 /\ prev.pc = "done" /\ ~prev.dry

\* C1: after a non-dry run that completed, every content that a file of the
\* source tree or of the destination tree had before the run is the content
\* of some file of the destination tree.
C1_NoVersionLost ==
    LiveDone => ContentsOf(start.src) \cup ContentsOf(start.dst) \subseteq ContentsOf(dst)

\* C2: for a path in both trees with differing content, the source strictly
\* newer and the destination's file not byte-identical to an entry of its
\* .oldversion directory before the run: after a non-dry run the destination
\* holds the source's content at the path and the old destination content is
\* in .oldversion under the name stamped with the old destination mtime.
C2_SourceNewerReplaces ==
    LiveDone =>
        \A p \in InBoth :
            ( /\ Conflict(p)
              /\ start.src[p].m > start.dst[p].m
              /\ is_unique_version(start.dst[p], old_versions_dir(p), start.dst) )
            => /\ dst[p].c = start.src[p].c
               /\ old_version_path(p, start.dst[p].m) \in DOMAIN dst
               /\ dst[old_version_path(p, start.dst[p].m)].c = start.dst[p].c

\* C3: for a path in both trees with differing content and the source
\* strictly older: after a non-dry run the destination's file is untouched
\* and the source's file is, unmodified, in .oldversion under the name
\* stamped with the source mtime.
C3_BackupNewerArchives ==
    LiveDone =>
        \A p \in InBoth :
            (Conflict(p) /\ start.src[p].m < start.dst[p].m)
            => /\ dst[p] = start.dst[p]
               /\ old_version_path(p, start.src[p].m) \in DOMAIN dst
               /\ dst[old_version_path(p, start.src[p].m)] = start.src[p]

\* C4: for a path in both trees with differing content and differing mtimes:
\* after a non-dry run the destination path holds the content of the version
\* with the later mtime and a file of its .oldversion directory holds the
\* content of the older version, whatever .oldversion held before.
C4_NewestKept ==
    LiveDone =>
        \A p \in InBoth :
            (Conflict(p) /\ start.src[p].m # start.dst[p].m)
            => LET newer == IF start.src[p].m > start.dst[p].m
                              THEN start.src[p] ELSE start.dst[p]
                   older == IF start.src[p].m > start.dst[p].m
                              THEN start.dst[p] ELSE start.src[p]
               IN /\ dst[p].c = newer.c
                  /\ \E e \in listdir(dst, old_versions_dir(p)) : dst[e].c = older.c

\* C5: the source root that existed when the call began is gone only once a
\* non-dry call has iterated every path of the source snapshot and ended
\* without an exception, and it is gone whenever a non-dry call has ended so.
C5_SourceDeletedLast ==
    /\ (start.srcRoot /\ ~srcRoot)
           => /\ pc = "done" /\ ~dry_run /\ error = "none"
              /\ DOMAIN decision = DOMAIN folder_to_backup_tree
    /\ LiveDone => ~srcRoot

C5_Witness ==
    /\ LiveDone /\ start.srcRoot /\ ~srcRoot
    /\ Cardinality(DOMAIN decision) = 2

C7_DryRunPredictsLiveRun ==
    ( /\ runs > 1 /\ LiveDone
      /\ prev.dry /\ prev.error # "OSError"
      /\ prev.src = start.src /\ prev.dst = start.dst /\ prev.dstDirs = start.dstDirs )
    => /\ prev.pc = "done"
       /\ prev.decision = decision
       /\ prev.count = count

\* C8: no .oldversion directory of the destination holds two byte-identical
\* files (the destination trees of Init hold at most one archived version).
C8_ArchiveUnique ==
    \A e1, e2 \in DOMAIN dst :
        ( /\ e1 # e2 /\ e1.dir = e2.dir
          /\ e1.dir # Root /\ e1.dir[Len(e1.dir)] = OLDVERSION )
        => ~filecmp(dst[e1], dst[e2])

\* C9 as stated: a call that follows a completed non-dry call (its source
\* tree is empty or absent) ends having changed nothing in either tree and
\* reports zero for every counter.
C9_SecondRunNoMutation ==
    (AfterMerge /\ pc \in {"done", "failed"})
        => /\ Snapshot = start
           /\ pc = "done" /\ count = ZeroCounts

\* C9 as amended: such a call changes no file or directory of the destination
\* tree other than the log file; with the source root present (and empty) it
\* completes with every counter zero and, unless it is a dry run, deletes the
\* source root; with the source root absent it raises FileNotFoundError.
C9_SecondRunLeavesBackup ==
    (AfterMerge /\ pc \in {"done", "failed"})
        => /\ dst = start.dst /\ dstDirs = start.dstDirs
           /\ src = NoFiles
           /\ count = ZeroCounts
           /\ start.srcRoot => (pc = "done" /\ srcRoot = dry_run)
           /\ ~start.srcRoot => (pc = "failed" /\ error = "FileNotFoundError" /\ ~srcRoot)

C9_Witness ==
    /\ AfterMerge /\ LiveDone
    /\ start.srcRoot /\ ~srcRoot
    /\ prev.count.newer = 1 /\ prev.count.moved = 1

\* C10: for a path in both trees with differing content and equal mtimes, a
\* completed run leaves the source file where it was, the destination file
\* untouched and, when it is the only path of the source, the destination
\* tree without any new file or directory.
C10_TieLeftAlone ==
    pc = "done" =>
        \A p \in InBoth :
            (Conflict(p) /\ start.src[p].m = start.dst[p].m)
            => /\ p \in DOMAIN src /\ src[p] = start.src[p]
               /\ dst[p] = start.dst[p]
               /\ DOMAIN start.src = {p}
                     => (dstDirs = start.dstDirs /\ DOMAIN dst = DOMAIN start.dst)
====
